---------------------------- MODULE Spec2Model ----------------------------
(***************************************************************************)
(* The two pre-commit hook scripts of the repository:                      *)
(*                                                                         *)
(*   scripts/combinedScript.py          ("combined")                       *)
(*   scripts/kubescape-nonroot-check.py ("nonroot")                        *)
(*                                                                         *)
(* Spec is one run of main of either script, from the version-control      *)
(* query to the process exit.  SpecDetect applies the two root-container   *)
(* detectors (check_root_containers, find_root_containers) to one staged   *)
(* manifest file.                                                          *)
(***************************************************************************)
EXTENDS Integers, Sequences, FiniteSets, TLC

VARIABLES
    script,       \* which script runs: "combined" or "nonroot"
    pc,           \* position in main (Spec) or in the detector run (SpecDetect)
    git,          \* environment: how the git query ends ("ok" or "fail")
    index,        \* environment: the staged paths git lists, in git's order
    worktree,     \* environment: the staged paths that exist on disk
    installed,    \* environment: whether a kubescape executable is on PATH
    scan,         \* environment: what the scanner process did, <<>> until it ran
    yaml_files,   \* main: yaml_files
    i,            \* main: number of files the detector loop has handled
    data,         \* main: ks_output (combined) / data (nonroot), <<>> until set
    all_issues,   \* main (combined): all_issues, as the number of root-container
                  \* issues and of scanner issues in the list
    issue_lines,  \* the issue lines printed so far, counted the same way
    failed,       \* main (nonroot): failed
    tmp,          \* the temporary directory of run_kubescape (nonroot)
    looked,       \* whether shutil.which was called
    printed,      \* the kinds of message printed so far
    exit,         \* <<>> while the process runs, <<code>> once it has ended
    manifest,     \* SpecDetect: the content of the file under check
    found         \* SpecDetect: what the detector returned, <<>> until it ran

vars == <<script, pc, git, index, worktree, installed, scan, yaml_files, i, data,
          all_issues, issue_lines, failed, tmp, looked, printed, exit, manifest, found>>

runVars == <<git, index, worktree, installed, scan, yaml_files, i, data,
             all_issues, issue_lines, failed, tmp, looked, printed, exit>>

-----------------------------------------------------------------------------
(* Bounds of the model                                                     *)

\* SpecDetect: documents per file, containers per document
MaxDocs == 2
MaxContainers == 2
\* Spec: documents per file, containers per document, results in the scanner's JSON
RunDocs == 1
RunContainers == 1
MaxResults == 1

-----------------------------------------------------------------------------
(* YAML values as the loader returns them: None, int, str, list, dict      *)

Null == [t |-> "null"]
IntV(n) == [t |-> "int", v |-> n]
StrV(s) == [t |-> "str", s |-> s]
ListV(items) == [t |-> "seq", items |-> items]
MapV(m) == [t |-> "map", m |-> m]
NoKeys == [k \in {} |-> Null]
EmptyMap == MapV(NoKeys)
EmptyList == ListV(<<>>)

\* isinstance(v, dict)
IsDict(v) == v.t = "map"
IsList(v) == v.t = "seq"
\* key in d, for a dict d
Has(d, key) == key \in DOMAIN d.m
\* d.get(key, default), for a dict d
Get(d, key, default) == IF Has(d, key) THEN d.m[key] ELSE default

-----------------------------------------------------------------------------
(* Manifest files.  A file is a sequence of documents separated by "---";  *)
(* a document is described by its form and its containers, and from that   *)
(* description come both the text lines of the file and the value the      *)
(* YAML loader builds.                                                     *)
(*   form "bad"            text that does not parse                        *)
(*        "scalar"         a document that is not a mapping                *)
(*        "nospec"         a mapping without a spec key                    *)
(*        "nullspec"       a mapping whose spec is null                    *)
(*        "nullcontainers" a Pod whose spec.containers is null             *)
(*        "pod"            spec.containers                                 *)
(*        "deployment"     spec.template.spec.containers                   *)
(*   container: sc "absent" (no securityContext key), "null", or "map";    *)
(*        rau = <<>> (no runAsUser key) or <<n>>                           *)

RunAsUserValues == {0, 1, 1000}

ContainerTexts ==
    {[sc |-> "absent", rau |-> <<>>], [sc |-> "null", rau |-> <<>>],
     [sc |-> "map", rau |-> <<>>]}
    \cup {[sc |-> "map", rau |-> <<n>>] : n \in RunAsUserValues}

SeqsUpTo(S, n) == UNION {[1..k -> S] : k \in 0..n}

DocTexts(maxc) ==
    {[form |-> f, containers |-> <<>>] :
        f \in {"bad", "scalar", "nospec", "nullspec", "nullcontainers"}}
    \cup {[form |-> f, containers |-> cs] :
            f \in {"pod", "deployment"}, cs \in SeqsUpTo(ContainerTexts, maxc)}

FileTexts(maxd, maxc) == SeqsUpTo(DocTexts(maxc), maxd)

\* the lines of one container: "- name: app", "securityContext: ...", "runAsUser: n"
ContainerLines(c) ==
    <<[text |-> "name", num |-> <<>>]>>
    \o (IF c.sc = "absent" THEN <<>> ELSE <<[text |-> "securityContext", num |-> <<>>]>>)
    \o (IF c.rau = <<>> THEN <<>> ELSE <<[text |-> "runAsUser", num |-> c.rau]>>)

RECURSIVE ContainersLines(_)
ContainersLines(cs) ==
    IF cs = <<>> THEN <<>> ELSE ContainerLines(Head(cs)) \o ContainersLines(Tail(cs))

Plain(text) == [text |-> text, num |-> <<>>]

\* the lines above the first container of a document
HeaderLines(doc) ==
    CASE doc.form = "bad" -> <<Plain("garbage")>>
      [] doc.form = "scalar" -> <<Plain("scalar")>>
      [] doc.form = "nospec" -> <<Plain("kind")>>
      [] doc.form = "nullspec" -> <<Plain("kind"), Plain("spec")>>
      [] doc.form = "nullcontainers" -> <<Plain("kind"), Plain("spec"), Plain("containers")>>
      [] doc.form = "pod" -> <<Plain("kind"), Plain("spec"), Plain("containers")>>
      [] doc.form = "deployment" ->
            <<Plain("kind"), Plain("spec"), Plain("template"), Plain("spec"),
              Plain("containers")>>

DocLines(doc) == HeaderLines(doc) \o ContainersLines(doc.containers)

\* f.readlines(): the documents' lines with a "---" line between documents
RECURSIVE FileLines(_)
FileLines(file) ==
    IF file = <<>> THEN <<>>
    ELSE IF Len(file) = 1 THEN DocLines(file[1])
    ELSE DocLines(file[1]) \o <<Plain("---")>> \o FileLines(Tail(file))

\* the 1-based line at which document d of the file starts
DocStart(file, d) == Len(FileLines(SubSeq(file, 1, d - 1))) + (IF d > 1 THEN 2 ELSE 1)

\* the 1-based line at which container j of document d starts
ContainerStart(file, d, j) ==
    DocStart(file, d) + Len(HeaderLines(file[d]))
        + Len(ContainersLines(SubSeq(file[d].containers, 1, j - 1)))

\* A mapping as the loader builds it: LineLoader.construct_mapping adds the
\* key __line__ (node.start_mark.line + 1), yaml.safe_load_all adds nothing.
Mapping(m, lined, line) == MapV(IF lined THEN m @@ ("__line__" :> IntV(line)) ELSE m)

SecurityContextValue(c, lined, line) ==
    IF c.sc = "null" THEN Null
    ELSE Mapping(IF c.rau = <<>> THEN NoKeys ELSE "runAsUser" :> IntV(c.rau[1]),
                 lined, line)

ContainerValue(c, lined, line) ==
    Mapping(("name" :> StrV("app"))
              @@ (IF c.sc = "absent" THEN NoKeys
                  ELSE "securityContext" :>
                         SecurityContextValue(c, lined,
                                              IF c.rau = <<>> THEN line + 1 ELSE line + 2)),
            lined, line)

ContainersValue(file, d, lined) ==
    ListV([j \in 1..Len(file[d].containers) |->
              ContainerValue(file[d].containers[j], lined, ContainerStart(file, d, j))])

\* the value of document d of the file (d is not of form "bad")
DocValue(file, d, lined) ==
    LET doc == file[d]
        at == DocStart(file, d)
        kind(k) == "kind" :> StrV(k)
    IN  CASE doc.form = "scalar" -> StrV("scalar")
          [] doc.form = "nospec" -> Mapping(kind("ConfigMap"), lined, at)
          [] doc.form = "nullspec" -> Mapping(kind("Pod") @@ ("spec" :> Null), lined, at)
          [] doc.form = "nullcontainers" ->
                Mapping(kind("Pod")
                          @@ ("spec" :> Mapping("containers" :> Null, lined, at + 2)),
                        lined, at)
          [] doc.form = "pod" ->
                Mapping(kind("Pod")
                          @@ ("spec" :> Mapping("containers" :> ContainersValue(file, d, lined),
                                                lined, at + 2)),
                        lined, at)
          [] doc.form = "deployment" ->
                Mapping(kind("Deployment")
                          @@ ("spec" :>
                                Mapping("template" :>
                                          Mapping("spec" :>
                                                    Mapping("containers" :>
                                                              ContainersValue(file, d, lined),
                                                            lined, at + 4),
                                                  lined, at + 3),
                                        lined, at + 2)),
                        lined, at)

\* whether the loader raises on the file: some document does not parse
Unparsable(file) == \E d \in 1..Len(file) : file[d].form = "bad"

\* list(yaml.load_all(f, ...)) when no document is bad
LoadAll(file, lined) == [d \in 1..Len(file) |-> DocValue(file, d, lined)]

-----------------------------------------------------------------------------
(* The detectors.  Both return [issues, raised]: the list of findings, or  *)
(* raised = TRUE when an exception leaves the function.  A finding carries *)
(* the position (doc, idx) of the container it was made for, and the line  *)
(* the script reports (<<>> when it reports none).                         *)

Issue(kind, d, j, line) == [kind |-> kind, doc |-> d, idx |-> j, line |-> line]
Returned(issues) == [issues |-> issues, raised |-> FALSE]
Raised == [issues |-> <<>>, raised |-> TRUE]

\* combinedScript.py, parse_yaml_with_lines
ParseErrorMarker == MapV(("__line__" :> IntV(1)) @@ ("parse_error" :> StrV("error")))

parse_yaml_with_lines(file) ==
    IF Unparsable(file) THEN <<ParseErrorMarker>> ELSE LoadAll(file, TRUE)

\* combinedScript.py, check_root_containers: the loop over containers, from item j
RECURSIVE CheckContainers(_, _, _, _)
CheckContainers(containers, j, d, issues) ==
    IF j > Len(containers.items) THEN Returned(issues)
    ELSE LET container == containers.items[j] IN
         IF ~IsDict(container) THEN Raised
         ELSE LET sc == Get(container, "securityContext", EmptyMap)
                  line_num == Get(container, "__line__", IntV(0))
              IN  IF ~IsDict(sc) THEN Raised
                  ELSE IF Get(sc, "runAsUser", Null) = IntV(0)
                  THEN CheckContainers(containers, j + 1, d,
                                       Append(issues, Issue("explicit", d, j, <<line_num.v>>)))
                  ELSE IF ~Has(sc, "runAsUser")
                  THEN CheckContainers(containers, j + 1, d,
                                       Append(issues, Issue("implicit", d, j, <<line_num.v>>)))
                  ELSE CheckContainers(containers, j + 1, d, issues)

\* combinedScript.py, check_root_containers: the loop over docs, from document d
RECURSIVE CheckDocs(_, _, _)
CheckDocs(docs, d, issues) ==
    IF d > Len(docs) THEN Returned(issues)
    ELSE LET doc == docs[d] IN
         IF ~IsDict(doc) THEN CheckDocs(docs, d + 1, issues)
         ELSE LET spec == Get(doc, "spec", EmptyMap) IN
              IF ~IsDict(spec) THEN Raised
              ELSE LET containers == Get(spec, "containers", EmptyList) IN
                   IF ~IsList(containers) THEN Raised
                   ELSE LET r == CheckContainers(containers, 1, d, issues) IN
                        IF r.raised THEN Raised ELSE CheckDocs(docs, d + 1, r.issues)

check_root_containers(file) == CheckDocs(parse_yaml_with_lines(file), 1, <<>>)

\* "0" in str(n), for n >= 0
RECURSIVE HasZeroDigit(_)
HasZeroDigit(n) == IF n < 10 THEN n = 0 ELSE (n % 10 = 0 \/ HasZeroDigit(n \div 10))

\* "runAsUser" in line and "0" in line
RootLine(line) == line.text = "runAsUser" /\ line.num # <<>> /\ HasZeroDigit(line.num[1])

\* kubescape-nonroot-check.py: the loop over enumerate(lines, start=1), from line n
RECURSIVE ScanLines(_, _, _, _, _)
ScanLines(lines, n, d, j, issues) ==
    IF n > Len(lines) THEN issues
    ELSE ScanLines(lines, n + 1, d, j,
                   IF RootLine(lines[n]) THEN Append(issues, Issue("explicit", d, j, <<n>>))
                   ELSE issues)

\* kubescape-nonroot-check.py, find_root_containers: the loop over containers
RECURSIVE FindContainers(_, _, _, _, _)
FindContainers(containers, j, d, lines, issues) ==
    IF j > Len(containers.items) THEN Returned(issues)
    ELSE LET c == containers.items[j] IN
         IF ~IsDict(c) THEN Raised
         ELSE LET sc == Get(c, "securityContext", EmptyMap) IN
              IF ~IsDict(sc) THEN Raised
              ELSE IF Has(sc, "runAsUser")
              THEN IF sc.m["runAsUser"] = IntV(0)
                   THEN FindContainers(containers, j + 1, d, lines,
                                       ScanLines(lines, 1, d, j, issues))
                   ELSE FindContainers(containers, j + 1, d, lines, issues)
              ELSE FindContainers(containers, j + 1, d, lines,
                                  Append(issues, Issue("implicit", d, j, <<>>)))

\* kubescape-nonroot-check.py, find_root_containers: the loop over docs
RECURSIVE FindDocs(_, _, _, _)
FindDocs(docs, d, lines, issues) ==
    IF d > Len(docs) THEN Returned(issues)
    ELSE LET doc == docs[d] IN
         IF ~IsDict(doc) THEN FindDocs(docs, d + 1, lines, issues)
         ELSE LET spec == Get(doc, "spec", EmptyMap) IN
              IF ~IsDict(spec) THEN Raised
              ELSE LET template == IF Has(spec, "template") THEN spec.m["template"] ELSE spec
                   IN  IF ~IsDict(template) THEN Raised
                       ELSE LET pod_spec == Get(template, "spec", EmptyMap) IN
                            IF ~IsDict(pod_spec) THEN Raised
                            ELSE LET containers == Get(pod_spec, "containers", EmptyList) IN
                                 IF ~IsList(containers) THEN Raised
                                 ELSE LET r == FindContainers(containers, 1, d, lines, issues)
                                      IN  IF r.raised THEN Raised
                                          ELSE FindDocs(docs, d + 1, lines, r.issues)

find_root_containers(file) ==
    IF Unparsable(file) THEN Returned(<<>>)
    ELSE FindDocs(LoadAll(file, FALSE), 1, FileLines(file), <<>>)

-----------------------------------------------------------------------------
(* SpecDetect: a detector applied to one manifest file                     *)

NoIssues == [root |-> 0, ks |-> 0]
NoTmp == [made |-> FALSE, files |-> {}, outfile |-> FALSE]

\* the variables of a run of main, before main has started
RunIdle ==
    /\ git = "ok" /\ index = <<>> /\ worktree = {} /\ installed = FALSE
    /\ scan = <<>> /\ yaml_files = <<>> /\ i = 0 /\ data = <<>>
    /\ all_issues = NoIssues /\ issue_lines = NoIssues /\ failed = FALSE
    /\ tmp = NoTmp /\ looked = FALSE
    /\ printed = {} /\ exit = <<>>

DetectInit ==
    /\ pc = "detect"
    /\ script = "none"
    /\ manifest \in FileTexts(MaxDocs, MaxContainers)
    /\ found = <<>>
    /\ RunIdle

\* combinedScript.py: check_root_containers(file_path)
DetectCombined ==
    /\ pc = "detect"
    /\ script' = "combined"
    /\ found' = <<check_root_containers(manifest)>>
    /\ pc' = "detected"
    /\ UNCHANGED <<manifest, runVars>>

\* kubescape-nonroot-check.py: find_root_containers(yaml_file)
DetectNonroot ==
    /\ pc = "detect"
    /\ script' = "nonroot"
    /\ found' = <<find_root_containers(manifest)>>
    /\ pc' = "detected"
    /\ UNCHANGED <<manifest, runVars>>

DetectNext == DetectCombined \/ DetectNonroot

SpecDetect == DetectInit /\ [][DetectNext]_vars

-----------------------------------------------------------------------------
(* Spec: one run of main.  The environment (what git lists, which files    *)
(* exist, whether kubescape is installed) is fixed at the start; what the  *)
(* scanner prints and what a staged file holds are drawn when the script   *)
(* runs the scanner or reads the file.                                     *)

\* the staged paths, in the order git prints them
AllPaths ==
    <<[dir |-> "a", name |-> "x", ext |-> "yaml"],
      [dir |-> "b", name |-> "x", ext |-> "yaml"],
      [dir |-> "b", name |-> "y", ext |-> "yml"],
      [dir |-> "b", name |-> "z", ext |-> "txt"]>>

Range(seq) == {seq[k] : k \in DOMAIN seq}
Keep(seq, S) == SelectSeq(seq, LAMBDA p : p \in S)
Listings == {Keep(AllPaths, S) : S \in SUBSET Range(AllPaths)}

\* the filter forgotten: every staged path is taken for a YAML file
IsYamlUnfiltered(f) == f.ext \in {"yaml", "yml", "txt"}

\* f.endswith((".yaml", ".yml"))
IsYaml(f) == f.ext \in {"yaml", "yml"}

\* os.path.basename(f)
basename(f) == [name |-> f.name, ext |-> f.ext]

\* what the scanner leaves on stdout (combined) or in the output file (nonroot)
Severities == {"Critical", "high", "medium"}
Results == [severity : Severities, controlID : {"C-0057", "C-0013"},
            status : {"failed", "passed"}]
EmptyJson == [resources |-> <<>>]
ScannerJson ==
    {EmptyJson} \cup {[resources |-> <<[results |-> rs]>>] : rs \in SeqsUpTo(Results, MaxResults)}
ScannerOutputs ==
    {[kind |-> "empty", json |-> EmptyJson], [kind |-> "garbage", json |-> EmptyJson]}
    \cup {[kind |-> "json", json |-> j] : j \in ScannerJson}

\* str.lower() on the severities the scanner writes
Lower(sev) == IF sev = "Critical" THEN "critical" ELSE sev

RECURSIVE Sum(_)
Sum(seq) == IF seq = <<>> THEN 0 ELSE Head(seq) + Sum(Tail(seq))

\* combinedScript.py, parse_kubescape_critical: the number of issues it returns
parse_kubescape_critical(json_data) ==
    LET results(k) == json_data.resources[k].results
    IN  Sum([k \in DOMAIN json_data.resources |->
                Cardinality({n \in DOMAIN results(k) :
                                Lower(results(k)[n].severity) \in {"critical", "high"}})])

\* kubescape-nonroot-check.py, main: the number of resource lines it prints
FlaggedResults(json_data) ==
    LET results(k) == json_data.resources[k].results
    IN  Sum([k \in DOMAIN json_data.resources |->
                Cardinality({n \in DOMAIN results(k) :
                                /\ results(k)[n].controlID = "C-0057"
                                /\ results(k)[n].status = "failed"})])

\* the files a staged path may hold
RunFiles == FileTexts(RunDocs, RunContainers)

\* what main keeps of a detector's result: whether it raised, and the number of issues
Outcome(r) == [raised |-> r.raised, n |-> Len(r.issues)]
\* open() raised and the detector caught it: no issue
NoFile == [raised |-> FALSE, n |-> 0]
CombinedOutcomes == {Outcome(check_root_containers(file)) : file \in RunFiles}
NonrootOutcomes == {Outcome(find_root_containers(file)) : file \in RunFiles}

\* kubescape-nonroot-check.py, run_kubescape: the copy loop from file k;
\* files holds, for each name in the temporary directory, the path it was copied from
RECURSIVE CopyFiles(_, _, _, _)
CopyFiles(files, k, exists, copied) ==
    IF k > Len(files) THEN copied
    ELSE LET f == files[k]
             dest == basename(f)
         IN  CopyFiles(files, k + 1, exists,
                       IF f \in exists
                       THEN {c \in copied : c.dest # dest} \cup {[dest |-> dest, src |-> f]}
                       ELSE copied)

Init ==
    /\ pc = "start"
    /\ script \in {"combined", "nonroot"}
    /\ git \in {"ok", "fail"}
    /\ index \in Listings
    /\ worktree \in SUBSET Range(index)
    /\ installed \in BOOLEAN
    /\ scan = <<>> /\ yaml_files = <<>> /\ i = 0 /\ data = <<>>
    /\ all_issues = NoIssues /\ issue_lines = NoIssues /\ failed = FALSE
    /\ tmp = NoTmp /\ looked = FALSE /\ printed = {} /\ exit = <<>>
    /\ manifest = <<>> /\ found = <<>>

envVars == <<script, git, index, worktree, installed, manifest, found>>

\* an exception nothing catches: the interpreter prints the traceback and exits 1
Uncaught ==
    /\ pc' = "raised"
    /\ printed' = printed \cup {"traceback"}
    /\ exit' = <<1>>

\* sys.exit(code) / return code from main
Exit(code, message) ==
    /\ pc' = "exited"
    /\ printed' = printed \cup {message}
    /\ exit' = <<code>>

\* get_staged_yaml_files of either script
get_staged_yaml_files ==
    /\ pc = "start"
    /\ yaml_files' = IF git = "ok" THEN SelectSeq(index, IsYaml) ELSE <<>>
    /\ printed' = IF script = "nonroot" /\ git = "fail"
                  THEN printed \cup {"error getting staged files"} ELSE printed
    /\ pc' = "staged"
    /\ UNCHANGED <<envVars, scan, i, data, all_issues, issue_lines, failed, tmp, looked, exit>>

\* main of either script: if not yaml_files
NothingToScan ==
    /\ pc = "staged"
    /\ yaml_files = <<>>
    /\ Exit(0, "nothing to scan")
    /\ UNCHANGED <<envVars, scan, yaml_files, i, data, all_issues, issue_lines, failed, tmp, looked>>

\* combinedScript.py, main: one turn of the loop over yaml_files
CheckFile ==
    /\ script = "combined"
    /\ pc = "staged"
    /\ i < Len(yaml_files)
    /\ \E r \in (IF yaml_files[i + 1] \in worktree THEN CombinedOutcomes ELSE {NoFile}) :
          IF r.raised
          THEN Uncaught /\ UNCHANGED <<i, all_issues>>
          ELSE /\ all_issues' = [all_issues EXCEPT !.root = @ + r.n]
               /\ i' = i + 1
               /\ UNCHANGED <<pc, printed, exit>>
    /\ UNCHANGED <<envVars, scan, yaml_files, data, issue_lines, failed, tmp, looked>>

\* combinedScript.py, main: resource_map = map_resources_to_files(yaml_files);
\* the map gives the file and line named in a scanner issue's text
MapResources ==
    /\ script = "combined"
    /\ pc = "staged"
    /\ yaml_files # <<>>
    /\ i = Len(yaml_files)
    /\ pc' = "mapped"
    /\ UNCHANGED <<envVars, scan, yaml_files, i, data, all_issues, issue_lines, failed, tmp,
                   looked, printed, exit>>

\* combinedScript.py, run_kubescape
RunKubescapeCombined ==
    /\ script = "combined"
    /\ pc = "mapped"
    /\ IF yaml_files = <<>>
       THEN data' = <<EmptyJson>> /\ pc' = "scanned" /\ UNCHANGED <<scan, printed, exit>>
       ELSE IF ~installed
       THEN Uncaught /\ UNCHANGED <<scan, data>>
       ELSE \E code \in {0, 1}, out \in ScannerOutputs :
               /\ scan' = <<[code |-> code, out |-> out]>>
               /\ data' = <<IF out.kind = "json" THEN out.json ELSE EmptyJson>>
               /\ printed' = IF out.kind = "garbage"
                             THEN printed \cup {"output is not valid JSON"} ELSE printed
               /\ pc' = "scanned"
               /\ UNCHANGED exit
    /\ UNCHANGED <<envVars, yaml_files, i, all_issues, issue_lines, failed, tmp, looked>>

\* combinedScript.py, main: all_issues.extend(parse_kubescape_critical(...))
ParseKubescape ==
    /\ script = "combined"
    /\ pc = "scanned"
    /\ all_issues' = [all_issues EXCEPT !.ks = @ + parse_kubescape_critical(data[1])]
    /\ pc' = "report"
    /\ UNCHANGED <<envVars, scan, yaml_files, i, data, issue_lines, failed, tmp, looked,
                   printed, exit>>

\* combinedScript.py, main: if all_issues ... else
ReportCombined ==
    /\ script = "combined"
    /\ pc = "report"
    /\ IF all_issues # NoIssues
       THEN issue_lines' = all_issues /\ Exit(1, "security issues found")
       ELSE issue_lines' = issue_lines /\ Exit(0, "all checks passed")
    /\ UNCHANGED <<envVars, scan, yaml_files, i, data, all_issues, failed, tmp, looked>>

\* kubescape-nonroot-check.py, main: if not shutil.which("kubescape")
Which ==
    /\ script = "nonroot"
    /\ pc = "staged"
    /\ yaml_files # <<>>
    /\ looked' = TRUE
    /\ IF installed
       THEN pc' = "found" /\ UNCHANGED <<printed, exit>>
       ELSE Exit(1, "kubescape not found")
    /\ UNCHANGED <<envVars, scan, yaml_files, i, data, all_issues, issue_lines, failed, tmp>>

\* kubescape-nonroot-check.py, run_kubescape, and main: if data is None
RunKubescapeNonroot ==
    /\ script = "nonroot"
    /\ pc = "found"
    /\ \E code \in {0, 1}, out \in ScannerOutputs :
          /\ scan' = <<[code |-> code, out |-> out]>>
          /\ tmp' = [made |-> TRUE,
                     files |-> CopyFiles(yaml_files, 1, worktree, {}),
                     outfile |-> out.kind # "empty"]
          /\ IF code # 0
             THEN data' = <<>> /\ Exit(1, "error running kubescape")
             ELSE IF out.kind # "json"
             THEN data' = <<>> /\ Exit(1, "error parsing kubescape output")
             ELSE data' = <<out.json>> /\ pc' = "scanned" /\ UNCHANGED <<printed, exit>>
    /\ UNCHANGED <<envVars, yaml_files, i, all_issues, issue_lines, failed, looked>>

\* kubescape-nonroot-check.py, main: the loop over data["resources"]
ReportKubescape ==
    /\ script = "nonroot"
    /\ pc = "scanned"
    /\ failed' = (failed \/ FlaggedResults(data[1]) > 0)
    /\ issue_lines' = [issue_lines EXCEPT !.ks = @ + FlaggedResults(data[1])]
    /\ pc' = "roots"
    /\ UNCHANGED <<envVars, scan, yaml_files, i, data, all_issues, tmp, looked, printed, exit>>

\* kubescape-nonroot-check.py, main: one turn of the loop over yaml_files
FindFile ==
    /\ script = "nonroot"
    /\ pc = "roots"
    /\ i < Len(yaml_files)
    /\ \E r \in (IF yaml_files[i + 1] \in worktree THEN NonrootOutcomes ELSE {NoFile}) :
          IF r.raised
          THEN Uncaught /\ UNCHANGED <<i, issue_lines, failed>>
          ELSE /\ issue_lines' = [issue_lines EXCEPT !.root = @ + r.n]
               /\ failed' = (failed \/ r.n > 0)
               /\ i' = i + 1
               /\ UNCHANGED <<pc, printed, exit>>
    /\ UNCHANGED <<envVars, scan, yaml_files, data, all_issues, tmp, looked>>

\* kubescape-nonroot-check.py, main: if failed ... return 0
ReportNonroot ==
    /\ script = "nonroot"
    /\ pc = "roots"
    /\ i = Len(yaml_files)
    /\ IF failed
       THEN Exit(1, "commit rejected")
       ELSE Exit(0, "no root containers")
    /\ UNCHANGED <<envVars, scan, yaml_files, i, data, all_issues, issue_lines, failed, tmp, looked>>

Next ==
    \/ get_staged_yaml_files
    \/ NothingToScan
    \/ CheckFile
    \/ MapResources
    \/ RunKubescapeCombined
    \/ ParseKubescape
    \/ ReportCombined
    \/ Which
    \/ RunKubescapeNonroot
    \/ ReportKubescape
    \/ FindFile
    \/ ReportNonroot

Spec == Init /\ [][Next]_vars

-----------------------------------------------------------------------------
(* Properties of the detectors (SpecDetect)                                *)

Detected == pc = "detected"

\* the containers of the pod specs of the file: <<d, j>> is container j of document d
PodContainers ==
    UNION {{<<d, j>> : j \in DOMAIN manifest[d].containers} : d \in DOMAIN manifest}

ContainerAt(dj) == manifest[dj[1]].containers[dj[2]]

\* every document parses, and spec, containers and securityContext are never null
WellFormed ==
    /\ \A d \in DOMAIN manifest : manifest[d].form \notin {"bad", "nullspec", "nullcontainers"}
    /\ \A dj \in PodContainers : ContainerAt(dj).sc # "null"

\* the number of findings of the given kinds the detector made for container dj
FindingsFor(dj, kinds) ==
    Cardinality({k \in DOMAIN found[1].issues :
                    /\ found[1].issues[k].doc = dj[1]
                    /\ found[1].issues[k].idx = dj[2]
                    /\ found[1].issues[k].kind \in kinds})

\* the documents whose containers the running script reads at all: the
\* combined script reads spec.containers, the nonroot script
\* spec.template.spec.containers
ReadsContainersOf(d) ==
    \/ script = "combined" /\ manifest[d].form = "pod"
    \/ script = "nonroot" /\ manifest[d].form = "deployment"

\* C1: on a well-formed file, each container whose securityContext.runAsUser
\* is 0 gets exactly one explicit-root finding, whatever else the file holds
\* (stated for the documents whose containers the script reads).
C1_ExplicitRootOnce ==
    (Detected /\ WellFormed) =>
        \A dj \in PodContainers :
            (ReadsContainersOf(dj[1]) /\ ContainerAt(dj).rau = <<0>>)
                => FindingsFor(dj, {"explicit"}) = 1

\* C2: on a well-formed file, each container of a pod spec without a runAsUser
\* key (with or without a securityContext) gets exactly one implicit-root
\* finding, from either detector.
C2_ImplicitRootOnce ==
    (Detected /\ WellFormed) =>
        \A dj \in PodContainers :
            ContainerAt(dj).rau = <<>> => FindingsFor(dj, {"implicit"}) = 1

\* C4: when a document of the file does not parse, the detector does not
\* raise and its result, which is all that main reports for the file, holds
\* a parse-error diagnostic.
C4_ParseErrorReported ==
    (Detected /\ Unparsable(manifest)) =>
        /\ ~found[1].raised
        /\ \E k \in DOMAIN found[1].issues : found[1].issues[k].kind = "parse error"

\* C9: on a well-formed file, the containers of a plain Pod (spec.containers)
\* and of a Deployment (spec.template.spec.containers) are both examined:
\* each container that runs as root, explicitly or implicitly, gets a finding.
C9_PodAndTemplateExamined ==
    (Detected /\ WellFormed) =>
        \A dj \in PodContainers :
            ContainerAt(dj).rau \in {<<0>>, <<>>}
                => FindingsFor(dj, {"explicit", "implicit"}) >= 1

-----------------------------------------------------------------------------
(* Properties of a run of main (Spec)                                      *)

Terminated == pc \in {"exited", "raised"}

\* the results of the scanner's JSON, when it ran and wrote JSON
ScannedResults ==
    IF scan # <<>> /\ scan[1].out.kind = "json" /\ scan[1].out.json.resources # <<>>
    THEN scan[1].out.json.resources[1].results ELSE <<>>

RootFindingExists == all_issues.root > 0 \/ issue_lines.root > 0

CriticalResultExists ==
    \E k \in DOMAIN ScannedResults : Lower(ScannedResults[k].severity) \in {"critical", "high"}

\* the diagnostics of a tooling error, and the traceback of an uncaught exception
ErrorMessages ==
    {"traceback", "kubescape not found", "error running kubescape",
     "error parsing kubescape output", "output is not valid JSON"}

ErrorOccurred == printed \cap ErrorMessages # {}

\* C3: a run ends with a non-zero exit code if and only if a root finding
\* exists, or a critical/high scanner result exists, or a tooling error occurred.
C3_ExitCodeIffIssue ==
    Terminated =>
        ((exit # <<0>>) <=> (RootFindingExists \/ CriticalResultExists \/ ErrorOccurred))

\* C5: when the scanner exits non-zero and its output is JSON with one result,
\* of critical severity, the run prints one issue line for it and exits with 1.
C5_NonZeroScannerStillParsed ==
    (/\ Terminated
     /\ scan # <<>>
     /\ scan[1].code # 0
     /\ Len(ScannedResults) = 1
     /\ Lower(ScannedResults[1].severity) = "critical")
        => (issue_lines.ks = 1 /\ exit = <<1>>)

\* the list git printed holds no path ending in .yaml or .yml
NoStagedYaml == git = "ok" => \A k \in DOMAIN index : index[k].ext \notin {"yaml", "yml"}

\* C6: when no staged path ends in .yaml or .yml, the run looks up no tool,
\* makes no temporary directory and never runs the scanner; it can only go on
\* to print the nothing-to-scan message and exit with 0.
C6_NothingToScan ==
    NoStagedYaml =>
        /\ scan = <<>> /\ ~looked /\ ~tmp.made
        /\ pc \in {"start", "staged", "exited"}
        /\ pc = "staged" => ENABLED NothingToScan
        /\ pc = "exited" => (exit = <<0>> /\ "nothing to scan" \in printed)

\* C6 happens: git listed staged paths, none of them YAML, and the run has ended
C6_Witness ==
    /\ pc = "exited"
    /\ git = "ok" /\ index # <<>> /\ NoStagedYaml
    /\ "nothing to scan" \in printed

\* C7: when the run has ended, the temporary directory run_kubescape made
\* has been removed.
C7_TempDirRemoved == Terminated => ~tmp.made

\* C8: no run ends with an exception that nothing caught.
C8_NoUncaughtFault == pc # "raised"

\* C10: once run_kubescape has copied the files, every staged YAML file that
\* exists on disk has its own copy in the temporary directory.
C10_EveryFileCopied ==
    tmp.made =>
        \A k \in DOMAIN yaml_files :
            yaml_files[k] \in worktree
                => [dest |-> basename(yaml_files[k]), src |-> yaml_files[k]] \in tmp.files

=============================================================================
